---- MODULE Spec2Model ----
(***************************************************************************)
(* Model of the stock analysis program: IndianStockDataFetcher             *)
(* (src/stock_data.py) and StockAnalyzer (src/stock_analyzer.py).          *)
(*                                                                         *)
(* Units.  pe_ratio and volume are whole numbers.  momentum_30d, which    *)
(* the fetcher rounds to 2 decimals, is held in hundredths of a percent    *)
(* point (1000 is 10.00), and so are close prices.  profit_margin and roe  *)
(* are held in thousandths (1000 is the value 1.0, 50 is 0.05).  Scores    *)
(* are integers; overall_score and the sector means are held in hundredths *)
(* (1000 is 10.00).  A missing number (pandas NaN / None) is the value     *)
(* NaN, which every comparison of the code answers False for.              *)
(***************************************************************************)
EXTENDS Integers, Sequences, FiniteSets, TLC

VARIABLES
    df,            \* the DataFrame an analyzer method is called on (a sequence of rows)
    args,          \* the arguments of the last analyzer call ([op |-> "none"] before any)
    ret,           \* what the last analyzer call returned
    nse_response,  \* the provider's answer to the last get_nse_stocks request
    nse_result,    \* what the last get_nse_stocks call returned
    pc,            \* position of get_multiple_stocks_data: idle, loop, sleep, done
    symbols,       \* its argument symbols
    max_stocks,    \* its argument max_stocks
    idx,           \* loop position i of enumerate(symbols[:max_stocks])
    stock_data,    \* the list stock_data of the running call
    batch,         \* the DataFrame the call returned
    log            \* the requests and sleeps issued so far, in order

vars == <<df, args, ret, nse_response, nse_result, pc, symbols, max_stocks, idx,
          stock_data, batch, log>>

analyzerVars == <<df, args, ret>>
nseVars == <<nse_response, nse_result>>
batchVars == <<pc, symbols, max_stocks, idx, stock_data, batch, log>>

----------------------------------------------------------------------------
(* Missing values and the comparisons of the code on them.                 *)

NaN == -999999

isna(x) == x = NaN

\* x < y, x <= y, x > y, x >= y as Python/numpy evaluate them: False on NaN.
Lt(x, y) == x # NaN /\ y # NaN /\ x < y
Le(x, y) == x # NaN /\ y # NaN /\ x <= y
Gt(x, y) == x # NaN /\ y # NaN /\ x > y
Ge(x, y) == x # NaN /\ y # NaN /\ x >= y

\* All sequences over S of length lo..hi.
SeqsOf(S, lo, hi) == UNION {[1..n -> S] : n \in lo..hi}

RECURSIVE SumSeq(_)
SumSeq(s) == IF s = <<>> THEN 0 ELSE Head(s) + SumSeq(Tail(s))

\* A row with every field at a harmless value; the specifications vary the
\* fields their operation reads.
BaseRow ==
    [symbol |-> "TCS", volume |-> 1, pe_ratio |-> 10, roe |-> 0,
     profit_margin |-> 0, momentum_30d |-> 0, sector |-> "Unknown"]

----------------------------------------------------------------------------
(* StockAnalyzer.__init__: the weights, in thousandths.                     *)

scoring_weights ==
    [pe_score |-> 250, volume_score |-> 200, momentum_score |-> 250,
     profit_score |-> 300]

----------------------------------------------------------------------------
(* calculate_pe_score                                                       *)

\* Faulty variant: the upper edge of each bucket taken as inclusive.
PeBucketUpperInclusive(pe) ==
    IF Le(pe, 0) \/ isna(pe) THEN 1
    ELSE IF Le(pe, 15) THEN 10
    ELSE IF Le(pe, 25) THEN 8
    ELSE IF Le(pe, 35) THEN 5
    ELSE 2

PeBucket(pe) ==
    IF Le(pe, 0) \/ isna(pe) THEN 1
    ELSE IF Lt(pe, 15) THEN 10
    ELSE IF Lt(pe, 25) THEN 8
    ELSE IF Lt(pe, 35) THEN 5
    ELSE 2

calculate_pe_score(d) == [i \in DOMAIN d |-> PeBucket(d[i].pe_ratio)]

----------------------------------------------------------------------------
(* calculate_volume_score                                                   *)

\* Faulty variant: rank(method='min'), tied rows at their lowest position.
RankPctMin(d, i) ==
    LET less == Cardinality({j \in DOMAIN d : d[j].volume < d[i].volume})
    IN  <<2 * (less + 1), 2 * Len(d)>>

\* df['volume'].rank(pct=True): pandas ranks ascending with method='average',
\* so tied rows get the mean of the positions they occupy, and divides by the
\* number of rows.  The percentile is the fraction <<numerator, denominator>>
\* = <<2*less + equal + 1, 2*n>>.
RankPct(d, i) ==
    LET less  == Cardinality({j \in DOMAIN d : d[j].volume < d[i].volume})
        equal == Cardinality({j \in DOMAIN d : d[j].volume = d[i].volume})
    IN  <<2 * less + equal + 1, 2 * Len(d)>>

\* percentile >= a/10
PctGe(p, a) == p[1] * 10 >= a * p[2]

VolumeBucket(p) ==
    IF PctGe(p, 8) THEN 10
    ELSE IF PctGe(p, 6) THEN 8
    ELSE IF PctGe(p, 4) THEN 6
    ELSE IF PctGe(p, 2) THEN 4
    ELSE 2

calculate_volume_score(d) ==
    IF SumSeq([i \in DOMAIN d |-> d[i].volume]) = 0
    THEN [i \in DOMAIN d |-> 5]
    ELSE [i \in DOMAIN d |-> VolumeBucket(RankPct(d, i))]

----------------------------------------------------------------------------
(* calculate_momentum_score                                                 *)

MomentumBucket(m) ==
    IF isna(m) THEN 5
    ELSE IF Gt(m, 2000) THEN 10
    ELSE IF Gt(m, 1000) THEN 8
    ELSE IF Gt(m, 0) THEN 6
    ELSE IF Gt(m, -1000) THEN 4
    ELSE 2

calculate_momentum_score(d) == [i \in DOMAIN d |-> MomentumBucket(d[i].momentum_30d)]

----------------------------------------------------------------------------
(* calculate_profit_score                                                   *)

\* Faulty variant: a value of exactly 1 also taken as a fraction.
ToPercentOneAsFraction(x) ==
    LET v == IF isna(x) THEN 0 ELSE x
    IN  IF v <= 1000 THEN v * 100 ELSE v

\* "Handle missing values" then "Convert to percentage if needed": the result
\* is in thousandths of a percent point (20000 is 20).
ToPercent(x) ==
    LET v == IF isna(x) THEN 0 ELSE x
    IN  IF v < 1000 THEN v * 100 ELSE v

MarginBucket(p) ==
    IF p > 20000 THEN 5
    ELSE IF p > 10000 THEN 4
    ELSE IF p > 5000 THEN 3
    ELSE IF p > 0 THEN 2
    ELSE 1

RoeBucket(p) ==
    IF p > 20000 THEN 5
    ELSE IF p > 15000 THEN 4
    ELSE IF p > 10000 THEN 3
    ELSE IF p > 5000 THEN 2
    ELSE 1

ProfitScore(row) ==
    MarginBucket(ToPercent(row.profit_margin)) + RoeBucket(ToPercent(row.roe))

calculate_profit_score(d) == [i \in DOMAIN d |-> ProfitScore(d[i])]

----------------------------------------------------------------------------
(* calculate_overall_score                                                  *)

\* Series.round(2): a value in thousandths to hundredths, half to even.
Round2(x) ==
    LET q == x \div 10
        r == x % 10
    IN  IF r < 5 THEN q
        ELSE IF r > 5 THEN q + 1
        ELSE IF q % 2 = 0 THEN q ELSE q + 1

\* Faulty variant: the pe and volume weights exchanged.
WeightedSumSwapped(pe, vol, mom, prof) ==
    pe * scoring_weights.volume_score + vol * scoring_weights.pe_score
    + mom * scoring_weights.momentum_score + prof * scoring_weights.profit_score

WeightedSum(pe, vol, mom, prof) ==
    pe * scoring_weights.pe_score + vol * scoring_weights.volume_score
    + mom * scoring_weights.momentum_score + prof * scoring_weights.profit_score

\* The DataFrame with the five score columns added.
calculate_overall_score(d) ==
    LET pe   == calculate_pe_score(d)
        vol  == calculate_volume_score(d)
        mom  == calculate_momentum_score(d)
        prof == calculate_profit_score(d)
    IN  [i \in DOMAIN d |->
            [symbol |-> d[i].symbol, volume |-> d[i].volume,
             pe_ratio |-> d[i].pe_ratio, roe |-> d[i].roe,
             profit_margin |-> d[i].profit_margin,
             momentum_30d |-> d[i].momentum_30d, sector |-> d[i].sector,
             pe_score |-> pe[i], volume_score |-> vol[i],
             momentum_score |-> mom[i], profit_score |-> prof[i],
             overall_score |-> Round2(WeightedSum(pe[i], vol[i], mom[i], prof[i]))]]

----------------------------------------------------------------------------
(* get_top_stocks.  A returned frame is the sequence of the index labels    *)
(* (positions in df) of its rows, in the frame's order.                     *)

Columns(d) == IF d = <<>> THEN {} ELSE DOMAIN d[1]

\* Faulty variant: keep='last', the latest row of a tie first.
PickLast(d, metric, rest) ==
    CHOOSE p \in rest :
        \A q \in rest :
            \/ d[q][metric] < d[p][metric]
            \/ (d[q][metric] = d[p][metric] /\ q <= p)

\* The position nlargest takes next among `rest`: a largest value, and with
\* keep='first' the earliest row holding it.
PickFirst(d, metric, rest) ==
    CHOOSE p \in rest :
        \A q \in rest :
            \/ d[q][metric] < d[p][metric]
            \/ (d[q][metric] = d[p][metric] /\ p <= q)

RECURSIVE NLargestFrom(_, _, _, _)
NLargestFrom(d, metric, rest, n) ==
    IF n <= 0 \/ rest = {} THEN <<>>
    ELSE LET p == PickFirst(d, metric, rest)
         IN  <<p>> \o NLargestFrom(d, metric, rest \ {p}, n - 1)

\* df.nlargest(top_n, metric)
nlargest(d, n, metric) == NLargestFrom(d, metric, DOMAIN d, n)

get_top_stocks(d, metric, top_n) ==
    IF metric \notin Columns(d)
    THEN [kind |-> "ValueError", index |-> <<>>]
    ELSE [kind |-> "frame", index |-> nlargest(d, top_n, metric)]

----------------------------------------------------------------------------
(* get_stocks_by_criteria.  criteria is a function from the keys it holds   *)
(* to their thresholds.                                                     *)

\* Faulty variant: the margin compared without the factor 100.
MarginPctGeUnscaled(m, t) == Ge(m, t * 1000)

\* profit_margin * 100 >= threshold, the margin in thousandths.
MarginPctGe(m, t) == m # NaN /\ Ge(m * 100, t * 1000)

get_stocks_by_criteria(d, criteria) ==
    LET has(k) == k \in DOMAIN criteria
        f0 == [i \in DOMAIN d |-> i]
        f1 == IF has("min_pe")
              THEN SelectSeq(f0, LAMBDA p : Ge(d[p].pe_ratio, criteria["min_pe"]))
              ELSE f0
        f2 == IF has("max_pe")
              THEN SelectSeq(f1, LAMBDA p : Le(d[p].pe_ratio, criteria["max_pe"]))
              ELSE f1
        f3 == IF has("min_momentum")
              THEN SelectSeq(f2, LAMBDA p :
                       Ge(d[p].momentum_30d, 100 * criteria["min_momentum"]))
              ELSE f2
        f4 == IF has("min_profit_margin")
              THEN SelectSeq(f3, LAMBDA p :
                       MarginPctGe(d[p].profit_margin, criteria["min_profit_margin"]))
              ELSE f3
        f5 == IF has("min_volume")
              THEN SelectSeq(f4, LAMBDA p : Ge(d[p].volume, criteria["min_volume"]))
              ELSE f4
    IN  f5

----------------------------------------------------------------------------
(* get_sector_analysis                                                      *)

\* The sector of a row that has none (None / NaN in the frame).
MissingSector == "<missing>"

\* a / b to the nearest integer, half to even (b > 0).
RoundDiv(a, b) ==
    LET q == a \div b
        r == a % b
    IN  IF 2 * r < b THEN q
        ELSE IF 2 * r > b THEN q + 1
        ELSE IF q % 2 = 0 THEN q ELSE q + 1

\* The values of one column over the rows at `rows`, missing values left out
\* (mean and count skip them).
RECURSIVE ColumnValues(_, _, _)
ColumnValues(d, col, rows) ==
    IF rows = {} THEN <<>>
    ELSE LET p == CHOOSE x \in rows : \A y \in rows : x <= y
             rest == ColumnValues(d, col, rows \ {p})
         IN  IF isna(d[p][col]) THEN rest ELSE <<d[p][col]>> \o rest

\* mean().round(2) of a column held in 1/scale units, in hundredths.
Mean2(d, col, rows, scale) ==
    LET vs == ColumnValues(d, col, rows)
    IN  IF vs = <<>> THEN NaN ELSE RoundDiv(100 * SumSeq(vs), scale * Len(vs))

\* df.groupby('sector'): the group keys.  A row whose key is missing belongs
\* to no group (groupby's dropna=True).
GroupKeys(d) == {d[i].sector : i \in DOMAIN d} \ {MissingSector}

GroupRows(d, key) == {i \in DOMAIN d : d[i].sector = key}

SectorRow(d, key) ==
    LET rows == GroupRows(d, key)
    IN  [sector |-> key,
         avg_score |-> Mean2(d, "overall_score", rows, 100),
         stock_count |-> Len(ColumnValues(d, "overall_score", rows)),
         avg_pe |-> Mean2(d, "pe_ratio", rows, 1),
         avg_momentum |-> Mean2(d, "momentum_30d", rows, 100),
         avg_profit_margin |-> Mean2(d, "profit_margin", rows, 1000)]

\* The frames sort_values('avg_score', ascending=False) may return: the
\* groups in descending avg_score, groups of equal avg_score in either order.
get_sector_analysis(d) ==
    LET keys == GroupKeys(d)
        n == Cardinality(keys)
    IN  {f \in [1..n -> {SectorRow(d, k) : k \in keys}] :
            /\ \A a, b \in 1..n : a # b => f[a].sector # f[b].sector
            /\ \A a, b \in 1..n : a < b => f[a].avg_score >= f[b].avg_score}

----------------------------------------------------------------------------
(* IndianStockDataFetcher.get_fallback_nifty50_stocks                       *)

nifty50_symbols ==
    <<"ADANIPORTS", "ASIANPAINT", "AXISBANK", "BAJAJ-AUTO", "BAJFINANCE",
      "BAJAJFINSV", "BPCL", "BHARTIARTL", "BRITANNIA", "CIPLA",
      "COALINDIA", "DIVISLAB", "DRREDDY", "EICHERMOT", "GRASIM",
      "HCLTECH", "HDFCBANK", "HDFCLIFE", "HEROMOTOCO", "HINDALCO",
      "HINDUNILVR", "ICICIBANK", "ITC", "INDUSINDBK", "INFY",
      "JSWSTEEL", "KOTAKBANK", "LT", "M&M", "MARUTI",
      "NTPC", "NESTLEIND", "ONGC", "POWERGRID", "RELIANCE",
      "SBILIFE", "SBIN", "SUNPHARMA", "TCS", "TATACONSUM",
      "TATAMOTORS", "TATASTEEL", "TECHM", "TITAN", "ULTRACEMCO",
      "UPL", "WIPRO">>

\* A JSON value the method can return: an array of objects, or something else.
JsonArray(items) == [type |-> "array", items |-> items]

get_fallback_nifty50_stocks ==
    JsonArray([i \in DOMAIN nifty50_symbols |-> [symbol |-> nifty50_symbols[i]]])

----------------------------------------------------------------------------
(* IndianStockDataFetcher.get_nse_stocks                                    *)
(*                                                                         *)
(* A response is [kind, status, body]: kind "error" when requests.get       *)
(* raised (timeout, connection error), else "http".  A body is             *)
(* [json, has_data, data]: json is "invalid" when response.json() raises,   *)
(* else the type of the top-level JSON value; has_data and data describe    *)
(* the 'data' member of a top-level object.                                 *)

get_nse_stocks(resp) ==
    IF resp.kind = "error" THEN get_fallback_nifty50_stocks
    ELSE IF resp.status = 200
         THEN IF resp.body.json # "object"
              \* json() raised, or the value has no .get: the except branch
              THEN get_fallback_nifty50_stocks
              \* data.get('data', [])
              ELSE IF resp.body.has_data THEN resp.body.data ELSE JsonArray(<<>>)
         ELSE get_fallback_nifty50_stocks

----------------------------------------------------------------------------
(* IndianStockDataFetcher.get_stock_details_yfinance                        *)
(*                                                                         *)
(* What the provider answers for one symbol is [raises, hist, info]: raises *)
(* when anything inside the try block throws, hist the 1-month history (a   *)
(* sequence of [Close, Volume]), info a function from the keys it holds to  *)
(* their values.  The method returns <<>> for None and <<record>> for a     *)
(* record.  Of the record the model keeps the fields the analyzer reads.    *)

\* dict.get(key, default): the default only when the key is not there.
InfoGet(info, key, default) == IF key \in DOMAIN info THEN info[key] ELSE default

get_stock_details_yfinance(symbol, prov) ==
    IF prov.raises THEN <<>>
    ELSE IF prov.hist = <<>> THEN <<>>
    ELSE LET latest == prov.hist[Len(prov.hist)]
             first  == prov.hist[1]
             momentum ==
                 IF Len(prov.hist) > 1
                 THEN RoundDiv((latest.Close - first.Close) * 10000, first.Close)
                 ELSE 0
         IN  <<[symbol |-> symbol,
                volume |-> latest.Volume,
                pe_ratio |-> InfoGet(prov.info, "trailingPE", 0),
                roe |-> InfoGet(prov.info, "returnOnEquity", 0),
                profit_margin |-> InfoGet(prov.info, "profitMargins", 0),
                momentum_30d |-> momentum,
                sector |-> InfoGet(prov.info, "sector", "Unknown")]>>

----------------------------------------------------------------------------
(* IndianStockDataFetcher.get_multiple_stocks_data                          *)

\* Faulty variant: one symbol more than max_stocks.
TruncateOneMore(s, n) ==
    IF n >= 0 THEN SubSeq(s, 1, IF n + 1 < Len(s) THEN n + 1 ELSE Len(s))
    ELSE SubSeq(s, 1, Len(s) + n)

\* symbols[:max_stocks]
Truncate(s, n) ==
    IF n >= 0 THEN SubSeq(s, 1, IF n < Len(s) THEN n ELSE Len(s))
    ELSE SubSeq(s, 1, Len(s) + n)

----------------------------------------------------------------------------
(* The parts of the state an analyzer call does not touch.  Each behaviour   *)
(* of an analyzer specification is one dataset and the calls made on it.    *)

NoResponse == [kind |-> "none"]

FetcherIdle ==
    /\ nse_response = NoResponse
    /\ nse_result = [kind |-> "none"]
    /\ pc = "idle"
    /\ symbols = <<>>
    /\ max_stocks = 0
    /\ idx = 0
    /\ stock_data = <<>>
    /\ batch = <<>>
    /\ log = <<>>

NoCall == [op |-> "none"]

----------------------------------------------------------------------------
(* Specification SpecPe: calculate_pe_score on every dataset of up to       *)
(* MaxRowsPe rows over PeValues.                                            *)

MaxRowsPe == 2

PeValues == {NaN, -3, 0, 1, 14, 15, 16, 24, 25, 26, 34, 35, 36}

PeRows == {[BaseRow EXCEPT !.pe_ratio = v] : v \in PeValues}

InitPe ==
    /\ df \in SeqsOf(PeRows, 1, MaxRowsPe)
    /\ args = NoCall
    /\ ret = <<>>
    /\ FetcherIdle

CallPeScore ==
    /\ args = NoCall
    /\ args' = [op |-> "calculate_pe_score"]
    /\ ret' = calculate_pe_score(df)
    /\ UNCHANGED <<df, nseVars, batchVars>>

SpecPe == InitPe /\ [][CallPeScore]_vars

----------------------------------------------------------------------------
(* Specification SpecVolume: calculate_volume_score on every dataset of up  *)
(* to MaxRowsVolume rows with volumes 0..MaxVolume.                         *)

MaxRowsVolume == 6

MaxVolume == 2

VolumeRows == {[BaseRow EXCEPT !.volume = v] : v \in 0..MaxVolume}

InitVolume ==
    /\ df \in SeqsOf(VolumeRows, 0, MaxRowsVolume)
    /\ args = NoCall
    /\ ret = <<>>
    /\ FetcherIdle

CallVolumeScore ==
    /\ args = NoCall
    /\ args' = [op |-> "calculate_volume_score"]
    /\ ret' = calculate_volume_score(df)
    /\ UNCHANGED <<df, nseVars, batchVars>>

SpecVolume == InitVolume /\ [][CallVolumeScore]_vars

NumBelow(i) == Cardinality({j \in DOMAIN df : df[j].volume < df[i].volume})
NumTied(i) == Cardinality({j \in DOMAIN df : df[j].volume = df[i].volume})

AllZero == \A i \in DOMAIN df : df[i].volume = 0
AllEqualNonzero ==
    /\ df # <<>>
    /\ \A i, j \in DOMAIN df : df[i].volume = df[j].volume /\ df[i].volume # 0

\* The bucket of the fraction k/n.
FractionBucket(k, n) ==
    IF 10 * k >= 8 * n THEN 10
    ELSE IF 10 * k >= 6 * n THEN 8
    ELSE IF 10 * k >= 4 * n THEN 6
    ELSE IF 10 * k >= 2 * n THEN 4
    ELSE 2

\* C1 as stated: the percentile of a row is the fraction of rows at or below
\* its volume, so a dataset of equal nonzero volumes scores 10 throughout.
C1_AtOrBelowRank ==
    args.op = "calculate_volume_score" =>
        /\ AllZero => \A i \in DOMAIN df : ret[i] = 5
        /\ ~AllZero =>
            \A i \in DOMAIN df :
                ret[i] = FractionBucket(NumBelow(i) + NumTied(i), Len(df))
        /\ AllEqualNonzero => \A i \in DOMAIN df : ret[i] = 10

\* C1 amended: the percentile of a row is the mean of the positions its tie
\* group occupies in ascending order, divided by the number of rows, that is
\* (2*below + tied + 1)/(2*n); equal nonzero volumes over n rows score 10 for
\* n = 1, 8 for n in 2..5 and 6 for n >= 6; all-zero volumes score 5.
C1_AverageRank ==
    args.op = "calculate_volume_score" =>
        /\ Len(ret) = Len(df)
        /\ AllZero => \A i \in DOMAIN df : ret[i] = 5
        /\ ~AllZero =>
            \A i \in DOMAIN df :
                ret[i] = FractionBucket(2 * NumBelow(i) + NumTied(i) + 1, 2 * Len(df))
        /\ AllEqualNonzero =>
            \A i \in DOMAIN df :
                ret[i] = IF Len(df) = 1 THEN 10 ELSE IF Len(df) <= 5 THEN 8 ELSE 6

\* Six rows of one nonzero volume have been scored 6 each.
C1_Witness ==
    /\ args.op = "calculate_volume_score"
    /\ Len(df) = 6
    /\ AllEqualNonzero
    /\ \A i \in DOMAIN df : ret[i] = 6

----------------------------------------------------------------------------
(* Specification SpecProfit: calculate_profit_score on every dataset of up  *)
(* to MaxRowsProfit rows over ProfitValues (thousandths).                   *)

MaxRowsProfit == 1

ProfitValues ==
    {NaN, -50, 0, 30, 50, 80, 100, 120, 150, 180, 200, 250, 500,
     1000, 5000, 8000, 10000, 12000, 15000, 18000, 20000, 25000}

ProfitRows ==
    {[BaseRow EXCEPT !.profit_margin = m, !.roe = r] :
        m \in ProfitValues, r \in ProfitValues}

InitProfit ==
    /\ df \in SeqsOf(ProfitRows, 1, MaxRowsProfit)
    /\ args = NoCall
    /\ ret = <<>>
    /\ FetcherIdle

CallProfitScore ==
    /\ args = NoCall
    /\ args' = [op |-> "calculate_profit_score"]
    /\ ret' = calculate_profit_score(df)
    /\ UNCHANGED <<df, nseVars, batchVars>>

SpecProfit == InitProfit /\ [][CallProfitScore]_vars

\* The percentage the claim buckets, in thousandths of a point: absent is 0,
\* a value below 1 is taken as a fraction, 1 or more is used as is.
ClaimPercent(x) ==
    IF x = NaN THEN 0 ELSE IF x < 1000 THEN 100 * x ELSE x

ClaimMarginBucket(x) ==
    LET p == ClaimPercent(x)
    IN  CASE p > 20000 -> 5
          [] p > 10000 /\ p <= 20000 -> 4
          [] p > 5000 /\ p <= 10000 -> 3
          [] p > 0 /\ p <= 5000 -> 2
          [] p <= 0 -> 1

ClaimRoeBucket(x) ==
    LET p == ClaimPercent(x)
    IN  CASE p > 20000 -> 5
          [] p > 15000 /\ p <= 20000 -> 4
          [] p > 10000 /\ p <= 15000 -> 3
          [] p > 5000 /\ p <= 10000 -> 2
          [] p <= 5000 -> 1

\* C6: profit_score is the margin bucket plus the roe bucket, each in 1..5, so
\* it lies in 2..10; 0.5 counts as 50% and 1 counts as 1%.
C6_ProfitScoreTable ==
    args.op = "calculate_profit_score" =>
        /\ Len(ret) = Len(df)
        /\ \A i \in DOMAIN df :
            /\ ret[i] = ClaimMarginBucket(df[i].profit_margin) + ClaimRoeBucket(df[i].roe)
            /\ ret[i] \in 2..10
            /\ (df[i].profit_margin = 500 /\ df[i].roe = 500) => ret[i] = 10
            /\ (df[i].profit_margin = 1000 /\ df[i].roe = 1000) => ret[i] = 3
            /\ (df[i].profit_margin = NaN /\ df[i].roe = NaN) => ret[i] = 2

\* A row with margin 0.5 (taken as 50%) and roe exactly 1 (taken as 1%) has
\* been scored 5 + 1.
C6_Witness ==
    /\ args.op = "calculate_profit_score"
    /\ df[1].profit_margin = 500
    /\ df[1].roe = 1000
    /\ ret[1] = 6

----------------------------------------------------------------------------
(* Specification SpecOverall: calculate_overall_score on every dataset of   *)
(* up to MaxRowsOverall rows over OverallRows.                              *)

MaxRowsOverall == 2

\* <<profit_margin, roe>> pairs with profit scores 5, 8 and 10.
OverallProfitPairs == {<<30, 120>>, <<120, 180>>, <<250, 250>>}

OverallRows ==
    {[BaseRow EXCEPT !.pe_ratio = pe, !.volume = v, !.momentum_30d = m,
                     !.profit_margin = pr[1], !.roe = pr[2]] :
        pe \in {10, 20, 30}, v \in {0, 7}, m \in {NaN, 1500, 2500},
        pr \in OverallProfitPairs}

InitOverall ==
    /\ df \in SeqsOf(OverallRows, 1, MaxRowsOverall)
    /\ args = NoCall
    /\ ret = <<>>
    /\ FetcherIdle

\* The method adds the columns to the frame it was given and returns it.
CallOverallScore ==
    /\ args = NoCall
    /\ args' = [op |-> "calculate_overall_score"]
    /\ df' = calculate_overall_score(df)
    /\ ret' = df'
    /\ UNCHANGED <<nseVars, batchVars>>

SpecOverall == InitOverall /\ [][CallOverallScore]_vars

\* C4: overall_score is 0.25*pe + 0.20*volume + 0.25*momentum + 0.30*profit
\* to 2 decimals, the weights sum to 1, and equal sub-scores k give exactly k.
C4_WeightedOverall ==
    /\ scoring_weights.pe_score + scoring_weights.volume_score
         + scoring_weights.momentum_score + scoring_weights.profit_score = 1000
    /\ args.op = "calculate_overall_score" =>
        \A i \in DOMAIN ret :
            LET r == ret[i]
                exact == 250 * r.pe_score + 200 * r.volume_score
                         + 250 * r.momentum_score + 300 * r.profit_score
            IN  /\ 10 * r.overall_score - exact \in -5..5
                /\ \A k \in 1..10 :
                    (r.pe_score = k /\ r.volume_score = k
                        /\ r.momentum_score = k /\ r.profit_score = k)
                    => r.overall_score = 100 * k

\* A dataset with a row whose four sub-scores are all 8, scored 8.00, beside
\* a row of unequal sub-scores has been scored.
C4_Witness ==
    /\ args.op = "calculate_overall_score"
    /\ \E i \in DOMAIN ret : ret[i].pe_score # ret[i].profit_score
    /\ \E i \in DOMAIN ret :
        /\ ret[i].pe_score = 8 /\ ret[i].volume_score = 8
        /\ ret[i].momentum_score = 8 /\ ret[i].profit_score = 8
        /\ ret[i].overall_score = 800

----------------------------------------------------------------------------
(* Specification SpecTop: get_top_stocks on every scored dataset of up to   *)
(* MaxRowsTop rows over TopScores, for every n up to MaxTopN.               *)

MaxRowsTop == 5

MaxTopN == 6

\* overall_score values, in hundredths.
TopScores == {200, 400, 750, 910}

TopRows ==
    {[symbol |-> "TCS", volume |-> 1, pe_ratio |-> 10, roe |-> 0,
      profit_margin |-> 0, momentum_30d |-> 0, sector |-> "Unknown",
      pe_score |-> 10, volume_score |-> 10, momentum_score |-> 4,
      profit_score |-> 2, overall_score |-> v] : v \in TopScores}

InitTop ==
    /\ df \in SeqsOf(TopRows, 1, MaxRowsTop)
    /\ args = NoCall
    /\ ret = <<>>
    /\ FetcherIdle

CallTopStocks ==
    \E metric \in {"overall_score", "dividend_yield"}, n \in 0..MaxTopN :
        /\ args = NoCall
        /\ args' = [op |-> "get_top_stocks", metric |-> metric, top_n |-> n]
        /\ ret' = get_top_stocks(df, metric, n)
        /\ UNCHANGED <<df, nseVars, batchVars>>

SpecTop == InitTop /\ [][CallTopStocks]_vars

TopReturned == {ret.index[a] : a \in DOMAIN ret.index}

TopShape ==
    (args.op = "get_top_stocks" /\ args.metric \in Columns(df)) =>
        LET m(p) == df[p][args.metric]
            res == ret.index
        IN  /\ ret.kind = "frame"
            /\ Len(res) = IF args.top_n < Len(df) THEN args.top_n ELSE Len(df)
            /\ TopReturned \subseteq DOMAIN df
            /\ Cardinality(TopReturned) = Len(res)
            /\ \A p \in TopReturned : \A q \in DOMAIN df \ TopReturned :
                /\ m(p) >= m(q)
                /\ m(p) = m(q) => p < q
            /\ \A a, b \in DOMAIN res : a < b =>
                /\ m(res[a]) >= m(res[b])
                /\ m(res[a]) = m(res[b]) => res[a] < res[b]
            /\ ([i \in DOMAIN df |-> df[i].overall_score] = <<910, 400, 750, 910, 200>>
                    /\ args.metric = "overall_score" /\ args.top_n = 3)
                => res = <<1, 4, 3>>

\* C8: get_top_stocks returns min(n, rows) rows, none smaller than a row left
\* out, in descending metric order, equal values in dataset order and the
\* earlier rows of a tie at the cut-off; the dataset itself is not changed.
C8_TopN == []TopShape /\ [][args'.op = "get_top_stocks" => df' = df]_vars

\* The example dataset has been cut to its top 3, a tie included.
C8_Witness ==
    /\ args.op = "get_top_stocks"
    /\ args.metric = "overall_score"
    /\ args.top_n = 3
    /\ [i \in DOMAIN df |-> df[i].overall_score] = <<910, 400, 750, 910, 200>>
    /\ ret.index = <<1, 4, 3>>

----------------------------------------------------------------------------
(* Specification SpecFilter: get_stocks_by_criteria on every dataset of up  *)
(* to MaxRowsFilter rows over FilterRows, for every subset of the keys.     *)

MaxRowsFilter == 3

FilterRow(pe, mom, margin, vol) ==
    [BaseRow EXCEPT !.pe_ratio = pe, !.momentum_30d = mom,
                    !.profit_margin = margin, !.volume = vol]

\* Rows on either side of, and on, each threshold of CriteriaValue.
FilterRows ==
    {FilterRow(pe, 500, 60, 200) : pe \in {5, 15, 25, NaN}}
    \cup {FilterRow(15, -500, 60, 200), FilterRow(15, 500, 40, 200),
          FilterRow(15, 500, 60, 100), FilterRow(15, 500, NaN, 200),
          FilterRow(10, 0, 50, 150), FilterRow(20, 0, 50, 150)}

CriteriaValue ==
    [min_pe |-> 10, max_pe |-> 20, min_momentum |-> 0,
     min_profit_margin |-> 5, min_volume |-> 150]

CriteriaSet == {[k \in K |-> CriteriaValue[k]] : K \in SUBSET DOMAIN CriteriaValue}

InitFilter ==
    /\ df \in SeqsOf(FilterRows, 0, MaxRowsFilter)
    /\ args = NoCall
    /\ ret = <<>>
    /\ FetcherIdle

CallStocksByCriteria ==
    \E criteria \in CriteriaSet :
        /\ args = NoCall
        /\ args' = [op |-> "get_stocks_by_criteria", criteria |-> criteria]
        /\ ret' = get_stocks_by_criteria(df, criteria)
        /\ UNCHANGED <<df, nseVars, batchVars>>

SpecFilter == InitFilter /\ [][CallStocksByCriteria]_vars

\* Row p meets every criterion that is present.
Satisfies(p) ==
    LET c == args.criteria
        r == df[p]
    IN  /\ "min_pe" \in DOMAIN c => (r.pe_ratio # NaN /\ r.pe_ratio >= c.min_pe)
        /\ "max_pe" \in DOMAIN c => (r.pe_ratio # NaN /\ r.pe_ratio <= c.max_pe)
        /\ "min_momentum" \in DOMAIN c =>
            (r.momentum_30d # NaN /\ r.momentum_30d >= 100 * c.min_momentum)
        /\ "min_profit_margin" \in DOMAIN c =>
            (r.profit_margin # NaN /\ r.profit_margin >= 10 * c.min_profit_margin)
        /\ "min_volume" \in DOMAIN c => r.volume >= c.min_volume

FilterShape ==
    args.op = "get_stocks_by_criteria" =>
        /\ \A p \in DOMAIN df : (\E a \in DOMAIN ret : ret[a] = p) <=> Satisfies(p)
        /\ \A a \in DOMAIN ret : ret[a] \in DOMAIN df
        /\ \A a, b \in DOMAIN ret : a < b => ret[a] < ret[b]
        /\ DOMAIN args.criteria = {} => Len(ret) = Len(df)
        /\ ([i \in DOMAIN df |-> df[i].pe_ratio] = <<5, 15, 25>>
                /\ DOMAIN args.criteria = {"min_pe", "max_pe"})
            => ret = <<2>>

\* C9: get_stocks_by_criteria returns exactly the rows that meet every
\* criterion present, in dataset order; absent keys do not constrain; the
\* dataset itself is not changed.
C9_Filter ==
    []FilterShape /\ [][args'.op = "get_stocks_by_criteria" => df' = df]_vars

\* {min_pe: 10, max_pe: 20} over pe_ratio [5, 15, 25] has kept the middle row.
C9_Witness ==
    /\ args.op = "get_stocks_by_criteria"
    /\ DOMAIN args.criteria = {"min_pe", "max_pe"}
    /\ [i \in DOMAIN df |-> df[i].pe_ratio] = <<5, 15, 25>>
    /\ ret = <<2>>

----------------------------------------------------------------------------
(* Specification SpecSector: datasets of up to MaxRowsSector records as the *)
(* fetcher builds them from the provider's answers, scored by               *)
(* calculate_overall_score and then grouped by get_sector_analysis.         *)

MaxRowsSector == 3

TwoPointHist == <<[Close |-> 10000, Volume |-> 5], [Close |-> 11000, Volume |-> 7]>>

OnePointHist == <<[Close |-> 10000, Volume |-> 3]>>

\* The provider's info with every fundamental, and with none.
FullInfo == [trailingPE |-> 20, returnOnEquity |-> 180, profitMargins |-> 120]

NoInfo == [k \in {} |-> 0]

\* info['sector']: not there, null, or a name.
WithSector(info, sector) ==
    IF sector = "<absent>" THEN info
    ELSE [k \in DOMAIN info \cup {"sector"} |->
             IF k = "sector" THEN sector ELSE info[k]]

SectorProviders ==
    {[raises |-> FALSE, hist |-> h[1], info |-> WithSector(h[2], sec)] :
        h \in {<<TwoPointHist, FullInfo>>, <<OnePointHist, NoInfo>>},
        sec \in {"<absent>", MissingSector, "IT", "Energy"}}

InitSector ==
    /\ \E provs \in SeqsOf(SectorProviders, 1, MaxRowsSector) :
        df = [i \in DOMAIN provs |->
                 get_stock_details_yfinance(nifty50_symbols[i], provs[i])[1]]
    /\ args = NoCall
    /\ ret = <<>>
    /\ FetcherIdle

CallSectorAnalysis ==
    /\ args.op = "calculate_overall_score"
    /\ args' = [op |-> "get_sector_analysis"]
    /\ ret' \in get_sector_analysis(df)
    /\ UNCHANGED <<df, nseVars, batchVars>>

SpecSector == InitSector /\ [][CallOverallScore \/ CallSectorAnalysis]_vars

\* The sector a row is counted under according to the claim.
ClaimSector(r) == IF r.sector = MissingSector THEN "Unknown" ELSE r.sector

\* C7: one result row per distinct sector, rows without a sector under
\* "Unknown"; each stock_count is the number of rows of that sector, so the
\* counts add up to the number of rows.
C7_SectorCounts ==
    args.op = "get_sector_analysis" =>
        /\ {ret[a].sector : a \in DOMAIN ret} = {ClaimSector(df[i]) : i \in DOMAIN df}
        /\ \A a, b \in DOMAIN ret : a # b => ret[a].sector # ret[b].sector
        /\ \A a \in DOMAIN ret :
            ret[a].stock_count =
                Cardinality({i \in DOMAIN df : ClaimSector(df[i]) = ret[a].sector})
        /\ SumSeq([a \in DOMAIN ret |-> ret[a].stock_count]) = Len(df)

----------------------------------------------------------------------------
(* Specification SpecNse: get_nse_stocks on every answer of the provider.   *)

MaxData == 3

\* Elements of a 'data' array: objects with a symbol, and one without.
DataItems == {[symbol |-> "TCS"], [symbol |-> "INFY"], [identifier |-> "NIFTY 50"]}

NoData == [type |-> "null", items |-> <<>>]

Bodies ==
    {[json |-> j, has_data |-> FALSE, data |-> NoData] :
        j \in {"invalid", "array", "object"}}
    \cup {[json |-> "object", has_data |-> TRUE, data |-> d] :
            d \in {NoData, [type |-> "string", items |-> <<>>]}
                  \cup {JsonArray(items) : items \in SeqsOf(DataItems, 0, MaxData)}}

Responses ==
    {[kind |-> "error", status |-> 0,
      body |-> [json |-> "invalid", has_data |-> FALSE, data |-> NoData]]}
    \cup {[kind |-> "http", status |-> st, body |-> b] :
            st \in {200, 403, 503}, b \in Bodies}

InitNse ==
    /\ nse_response = NoResponse
    /\ nse_result = [kind |-> "none"]
    /\ df = <<>> /\ args = NoCall /\ ret = <<>>
    /\ pc = "idle" /\ symbols = <<>> /\ max_stocks = 0 /\ idx = 0
    /\ stock_data = <<>> /\ batch = <<>> /\ log = <<>>

CallNseStocks ==
    \E resp \in Responses :
        /\ nse_response' = resp
        /\ nse_result' = get_nse_stocks(resp)
        /\ UNCHANGED <<analyzerVars, batchVars>>

SpecNse == InitNse /\ [][CallNseStocks]_vars

\* The payload the method expects: a JSON object with a non-empty 'data' array
\* of objects that each hold a symbol.
WellFormed(body) ==
    /\ body.json = "object"
    /\ body.has_data
    /\ body.data.type = "array"
    /\ body.data.items # <<>>
    /\ \A i \in DOMAIN body.data.items : "symbol" \in DOMAIN body.data.items[i]

LiveFailure(resp) ==
    resp.kind = "error" \/ resp.status # 200 \/ ~WellFormed(resp.body)

\* C2: on every failure of the live retrieval (error, non-200, malformed
\* payload) the result is the static list of 47 symbols, so the result is
\* never empty.
C2_FallbackOnFailure ==
    nse_response # NoResponse =>
        /\ Len(nifty50_symbols) = 47
        /\ LiveFailure(nse_response) => nse_result = get_fallback_nifty50_stocks
        /\ nse_result.type = "array" /\ nse_result.items # <<>>

----------------------------------------------------------------------------
(* Specification Spec: get_multiple_stocks_data on every list of up to      *)
(* MaxSymbols symbols (repeats included) with max_stocks up to MaxStocksArg *)
(* and every answer of the provider to each request.  The loop body is a    *)
(* request step and a sleep step; log records both in the order issued.     *)

MaxSymbols == 3

MaxStocksArg == 3

BatchSymbols == {"TCS", "INFY"}

\* The provider raising, returning no history, and returning a record with
\* one and with two points of history.
BatchProviders ==
    {[raises |-> TRUE, hist |-> <<>>, info |-> NoInfo],
     [raises |-> FALSE, hist |-> <<>>, info |-> FullInfo],
     [raises |-> FALSE, hist |-> OnePointHist, info |-> NoInfo],
     [raises |-> FALSE, hist |-> TwoPointHist, info |-> WithSector(FullInfo, "IT")]}

Init ==
    /\ pc = "idle"
    /\ symbols = <<>>
    /\ max_stocks = 0
    /\ idx = 0
    /\ stock_data = <<>>
    /\ batch = <<>>
    /\ log = <<>>
    /\ df = <<>> /\ args = NoCall /\ ret = <<>>
    /\ nse_response = NoResponse
    /\ nse_result = [kind |-> "none"]

\* The call: stock_data = [] and the loop set up over symbols[:max_stocks].
BatchStart ==
    \E syms \in SeqsOf(BatchSymbols, 0, MaxSymbols), n \in 0..MaxStocksArg :
        /\ pc = "idle"
        /\ symbols' = syms
        /\ max_stocks' = n
        /\ idx' = 0
        /\ stock_data' = <<>>
        /\ log' = <<>>
        /\ pc' = "loop"
        /\ UNCHANGED <<batch, analyzerVars, nseVars>>

\* Faulty variant: the sleep only after a request that returned a record.
BatchRequestNoSleepOnFailure(prov) ==
    /\ pc = "loop"
    /\ idx < Len(Truncate(symbols, max_stocks))
    /\ LET symbol == Truncate(symbols, max_stocks)[idx + 1]
           data == get_stock_details_yfinance(symbol, prov)
       IN  /\ stock_data' = IF data # <<>> THEN stock_data \o data ELSE stock_data
           /\ log' = Append(log, [ev |-> "request", pos |-> idx + 1,
                                  symbol |-> symbol, ok |-> data # <<>>])
           /\ pc' = IF data # <<>> THEN "sleep" ELSE "loop"
           /\ idx' = IF data # <<>> THEN idx ELSE idx + 1
    /\ UNCHANGED <<symbols, max_stocks, batch, analyzerVars, nseVars>>

\* One iteration up to the sleep: the request for the next symbol, and the
\* record appended if there is one.
BatchRequest(prov) ==
    /\ pc = "loop"
    /\ idx < Len(Truncate(symbols, max_stocks))
    /\ LET symbol == Truncate(symbols, max_stocks)[idx + 1]
           data == get_stock_details_yfinance(symbol, prov)
       IN  /\ stock_data' = IF data # <<>> THEN stock_data \o data ELSE stock_data
           /\ log' = Append(log, [ev |-> "request", pos |-> idx + 1,
                                  symbol |-> symbol, ok |-> data # <<>>])
    /\ pc' = "sleep"
    /\ UNCHANGED <<idx, symbols, max_stocks, batch, analyzerVars, nseVars>>

\* time.sleep(0.5), then the next iteration.
BatchSleep ==
    /\ pc = "sleep"
    /\ log' = Append(log, [ev |-> "sleep", pos |-> idx + 1, symbol |-> "", ok |-> TRUE])
    /\ idx' = idx + 1
    /\ pc' = "loop"
    /\ UNCHANGED <<symbols, max_stocks, stock_data, batch, analyzerVars, nseVars>>

\* The loop is exhausted: return pd.DataFrame(stock_data).
BatchReturn ==
    /\ pc = "loop"
    /\ idx >= Len(Truncate(symbols, max_stocks))
    /\ batch' = stock_data
    /\ pc' = "done"
    /\ UNCHANGED <<symbols, max_stocks, idx, stock_data, log, analyzerVars, nseVars>>

Next ==
    \/ BatchStart
    \/ \E prov \in BatchProviders : BatchRequest(prov)
    \/ BatchSleep
    \/ BatchReturn

Spec == Init /\ [][Next]_vars

\* The requests of the log, in order.
Requests == SelectSeq(log, LAMBDA e : e.ev = "request")

Succeeded == SelectSeq(Requests, LAMBDA e : e.ok)

MinOf(a, b) == IF a < b THEN a ELSE b

\* What C3 and its amendment share: the call has returned the records of the
\* positions among the first max_stocks whose request succeeded, one each, in
\* list order, and nothing when none succeeded.
BatchIsSucceeded ==
    pc = "done" =>
        /\ Len(Requests) = MinOf(max_stocks, Len(symbols))
        /\ \A k \in DOMAIN Requests :
            Requests[k].pos = k /\ Requests[k].symbol = symbols[k]
        /\ Len(batch) = Len(Succeeded)
        /\ \A k \in DOMAIN batch : batch[k].symbol = Succeeded[k].symbol
        /\ (\A k \in DOMAIN Requests : ~Requests[k].ok) => batch = <<>>

Remaining ==
    IF pc = "done" THEN 0
    ELSE 2 * (Len(Truncate(symbols, max_stocks)) - idx) + (IF pc = "loop" THEN 1 ELSE 0)

StepsDecrease ==
    pc \in {"loop", "sleep"} => (Remaining' < Remaining /\ Remaining' >= 0)

RecordPerSuccess ==
    /\ BatchIsSucceeded
    /\ pc \in {"loop", "sleep"} => ENABLED Next
    /\ pc = "done" =>
        /\ \A j \in DOMAIN batch :
            \E k \in DOMAIN Requests : Requests[k].ok /\ Requests[k].symbol = batch[j].symbol
        /\ (\A a, b \in DOMAIN Requests : a # b => Requests[a].symbol # Requests[b].symbol)
            => \A j, k \in DOMAIN batch : j # k => batch[j].symbol # batch[k].symbol

C10_SequentialRequests ==
    pc # "idle" =>
        /\ Len(Requests) <= max_stocks
        /\ Len(Requests) <= Len(symbols)
        /\ \A k \in DOMAIN Requests :
            Requests[k].pos = k /\ Requests[k].symbol = symbols[k]
        /\ \A a, b \in DOMAIN log :
            (a < b /\ log[a].ev = "request" /\ log[b].ev = "request")
            => \E c \in DOMAIN log : a < c /\ c < b /\ log[c].ev = "sleep"

\* A failed request has been followed by a sleep and then by the request for
\* the next symbol.
C10_Witness ==
    /\ Len(log) >= 3
    /\ log[1].ev = "request" /\ ~log[1].ok
    /\ log[2].ev = "sleep"
    /\ log[3].ev = "request" /\ log[3].pos = 2

====
